---------------------------- MODULE Spec2Model ----------------------------
(***************************************************************************)
(* Model of lambda_function.py: the WooCommerce "order created" webhook    *)
(* handler that derives a booking QR token from line-item metadata and     *)
(* mails it to the customer.                                               *)
(*                                                                         *)
(* Text is a sequence of one-character strings, bytes are sequences of     *)
(* integers 0..255, and a JSON / Python value is a record [t, v] tagged    *)
(* with its type.                                                          *)
(***************************************************************************)
EXTENDS Integers, Sequences, FiniteSets

(***************************************************************************)
(* Bounds of the model.                                                    *)
(***************************************************************************)
MaxItems == 2
MaxInvocations == 2
MaxPadLen == 33
MaxMeta == 3

(***************************************************************************)
(* Python values.                                                          *)
(***************************************************************************)
None == [t |-> "none", v |-> <<>>]
Str(s) == [t |-> "str", v |-> s]
List(xs) == [t |-> "list", v |-> xs]
Num(n) == [t |-> "int", v |-> <<n>>]

\* bool(x): None, "", [] and 0 are false.
Truthy(x) ==
    CASE x.t = "none" -> FALSE
      [] x.t = "int"  -> x.v[1] # 0
      [] OTHER        -> x.v # <<>>

\* Python's `a or b`.
Or(a, b) == IF Truthy(a) THEN a ELSE b

(***************************************************************************)
(* Text helpers.                                                           *)
(***************************************************************************)
DigitChars == <<"0", "1", "2", "3", "4", "5", "6", "7", "8", "9">>
IsDigit(c) == \E i \in 1..10 : DigitChars[i] = c
DigitVal(c) == (CHOOSE i \in 1..10 : DigitChars[i] = c) - 1
IsSpace(c) == c \in {" ", "\t"}

\* int(tok) of a token of digits (a leading blank is ignored, as int() does).
RECURSIVE ToInt(_)
ToInt(tok) ==
    IF tok = <<>> THEN 0
    ELSE IF IsSpace(tok[1]) THEN ToInt(Tail(tok))
    ELSE (ToInt(SubSeq(tok, 1, Len(tok) - 1)) * 10) + DigitVal(tok[Len(tok)])

\* "%02d"
Pad2(n) == <<DigitChars[((n \div 10) % 10) + 1], DigitChars[(n % 10) + 1]>>
\* "%04d"
Pad4(n) == Pad2(n \div 100) \o Pad2(n % 100)
\* "%d"
RECURSIVE Decimal(_)
Decimal(n) ==
    IF n < 10 THEN <<DigitChars[n + 1]>>
    ELSE Decimal(n \div 10) \o <<DigitChars[(n % 10) + 1]>>

RECURSIVE lstrip(_)
lstrip(s) == IF s # <<>> /\ IsSpace(Head(s)) THEN lstrip(Tail(s)) ELSE s
RECURSIVE rstrip(_)
rstrip(s) ==
    IF s # <<>> /\ IsSpace(s[Len(s)]) THEN rstrip(SubSeq(s, 1, Len(s) - 1)) ELSE s
\* str.strip()
strip(s) == rstrip(lstrip(s))

\* ord(c) of the characters a token plaintext is made of.
Ord(c) ==
    CASE c = "[" -> 91
      [] c = "]" -> 93
      [] c = "," -> 44
      [] OTHER   -> 48 + DigitVal(c)

\* str.encode('utf-8') of ASCII text.
EncodeAscii(s) == [i \in 1..Len(s) |-> Ord(s[i])]

\* UTF-8 bytes of one code point below U+0800.
Utf8Char(cp) ==
    IF cp < 128 THEN <<cp>> ELSE <<192 + (cp \div 64), 128 + (cp % 64)>>

\* str.encode('utf-8') of a sequence of code points.
RECURSIVE EncodeUtf8(_)
EncodeUtf8(cps) ==
    IF cps = <<>> THEN <<>> ELSE Utf8Char(Head(cps)) \o EncodeUtf8(Tail(cps))

\* n copies of x.
Rep(n, x) == [i \in 1..n |-> x]

(***************************************************************************)
(* pkcs7_pad: padding.PKCS7(128).padder() over the whole input.            *)
(***************************************************************************)
BlockSize == 16

\* A padder that adds nothing to a whole number of blocks.
pkcs7_pad_NoFullBlock(data) ==
    LET p == (BlockSize - (Len(data) % BlockSize)) % BlockSize
    IN  data \o Rep(p, p)

\* Lines 46-48.
pkcs7_pad(data) ==
    LET p == BlockSize - (Len(data) % BlockSize)
    IN  data \o Rep(p, p)

(***************************************************************************)
(* extract_meta_value.  A meta entry is [key, has, value]: has = FALSE     *)
(* is an entry without a "value" member.                                   *)
(***************************************************************************)
Meta(k, val) == [key |-> k, has |-> TRUE, value |-> val]
MetaNoValue(k) == [key |-> k, has |-> FALSE, value |-> None]

\* meta.get("value", []) followed by the conditional expression of line 77.
EntryValue(meta) ==
    LET value == IF meta.has THEN meta.value ELSE List(<<>>)
    IN  IF value.t = "list" /\ value.v # <<>> THEN value.v[1] ELSE value

\* The loop without its return: a later entry with the key replaces the
\* result of an earlier one.
RECURSIVE extract_meta_value_LastMatch(_, _)
extract_meta_value_LastMatch(meta_data, key) ==
    IF meta_data = <<>> THEN None
    ELSE IF /\ Head(meta_data).key = key
            /\ \A i \in 2..Len(meta_data) : meta_data[i].key # key
    THEN EntryValue(Head(meta_data))
    ELSE extract_meta_value_LastMatch(Tail(meta_data), key)

\* Lines 73-78.
RECURSIVE extract_meta_value(_, _)
extract_meta_value(meta_data, key) ==
    IF meta_data = <<>> THEN None
    ELSE IF Head(meta_data).key = key THEN EntryValue(Head(meta_data))
    ELSE extract_meta_value(Tail(meta_data), key)


(***************************************************************************)
(* datetime.strptime(text, "%d/%m/%Y %H:%M"), as _strptime matches it: the  *)
(* format becomes the regular expression                                   *)
(*   (3[0-1]|[1-2]\d|0[1-9]|[1-9]| [1-9])/(1[0-2]|0[1-9]|[1-9])/(\d\d\d\d)  *)
(*   \s+(2[0-3]|[0-1]\d|\d):([0-5]\d|\d)                                  *)
(* matched at the start of the text; text left over is an error, and so    *)
(* is a date the calendar does not have.                                   *)
(***************************************************************************)
\* Whether the token (one or two characters) is an alternative of the directive.
Fits(dir, tok) ==
    LET a == tok[1]
        two == Len(tok) = 2
        b == IF two THEN tok[2] ELSE "0"
        nz(c) == IsDigit(c) /\ c # "0"
    IN  CASE dir = "d" ->
               IF two THEN \/ a = "3" /\ b \in {"0", "1"}
                           \/ a \in {"1", "2"} /\ IsDigit(b)
                           \/ a = "0" /\ nz(b)
                           \/ a = " " /\ nz(b)
               ELSE nz(a)
          [] dir = "m" ->
               IF two THEN \/ a = "1" /\ b \in {"0", "1", "2"}
                           \/ a = "0" /\ nz(b)
               ELSE nz(a)
          [] dir = "H" ->
               IF two THEN \/ a = "2" /\ b \in {"0", "1", "2", "3"}
                           \/ a \in {"0", "1"} /\ IsDigit(b)
               ELSE IsDigit(a)
          [] OTHER ->  \* "M"
               IF two THEN a \in {"0", "1", "2", "3", "4", "5"} /\ IsDigit(b)
               ELSE IsDigit(a)

\* Whether what follows a directive's match is there at position i: the
\* literal sep, or anything at all when sep = "".
Follows(s, i, sep) == sep = "" \/ (i <= Len(s) /\ s[i] = sep)

\* Length of the directive's match at position i, given what must follow
\* it; 0 when there is none.  Two characters are tried before one.
FieldLen(s, i, dir, sep) ==
    IF /\ i + 1 <= Len(s)
       /\ Fits(dir, SubSeq(s, i, i + 1))
       /\ Follows(s, i + 2, sep)
    THEN 2
    ELSE IF i <= Len(s) /\ Fits(dir, SubSeq(s, i, i)) /\ Follows(s, i + 1, sep)
    THEN 1
    ELSE 0

\* Number of whitespace characters from position i on.
RECURSIVE SpaceRun(_, _)
SpaceRun(s, i) ==
    IF i <= Len(s) /\ IsSpace(s[i]) THEN 1 + SpaceRun(s, i + 1) ELSE 0

IsLeap(y) == (y % 4 = 0 /\ y % 100 # 0) \/ y % 400 = 0
DaysInMonth(y, m) ==
    IF m = 2 THEN (IF IsLeap(y) THEN 29 ELSE 28)
    ELSE IF m \in {4, 6, 9, 11} THEN 30 ELSE 31

NoDate == [ok |-> FALSE, Y |-> 0, m |-> 0, d |-> 0, H |-> 0, M |-> 0]

\* The matcher's state: the position reached and the groups so far.
MatchStart == [ok |-> TRUE, pos |-> 1, d |-> 0, m |-> 0, Y |-> 0, H |-> 0, M |-> 0]
NoMatch == [MatchStart EXCEPT !.ok = FALSE]

\* One directive group, followed by sep.
Group(s, st, dir, sep) ==
    IF ~st.ok THEN st
    ELSE LET L == FieldLen(s, st.pos, dir, sep)
         IN  IF L = 0 THEN NoMatch
             ELSE [st EXCEPT ![dir] = ToInt(SubSeq(s, st.pos, st.pos + L - 1)),
                             !.pos = st.pos + L]

\* A literal character of the format.
Literal(s, st, c) ==
    IF st.ok /\ st.pos <= Len(s) /\ s[st.pos] = c
    THEN [st EXCEPT !.pos = st.pos + 1]
    ELSE NoMatch

\* %Y: exactly four digits.
YearGroup(s, st) ==
    IF /\ st.ok
       /\ st.pos + 3 <= Len(s)
       /\ \A k \in st.pos..(st.pos + 3) : IsDigit(s[k])
    THEN [st EXCEPT !.Y = ToInt(SubSeq(s, st.pos, st.pos + 3)), !.pos = st.pos + 4]
    ELSE NoMatch

\* The blank of the format: \s+
Blanks(s, st) ==
    IF st.ok /\ SpaceRun(s, st.pos) > 0
    THEN [st EXCEPT !.pos = st.pos + SpaceRun(s, st.pos)]
    ELSE NoMatch

\* The whole expression, group by group.
MatchFormat(s) ==
    Group(s,
      Literal(s,
        Group(s,
          Blanks(s,
            YearGroup(s,
              Literal(s,
                Group(s,
                  Literal(s, Group(s, MatchStart, "d", "/"), "/"),
                  "m", "/"),
                "/"))),
          "H", ":"),
        ":"),
      "M", "")

\* The datetime of a match: none when text is left over ("unconverted data
\* remains") or the date is out of range.
DateOf(s, st) ==
    IF /\ st.ok
       /\ st.pos = Len(s) + 1
       /\ st.Y >= 1
       /\ st.d <= DaysInMonth(st.Y, st.m)
    THEN [ok |-> TRUE, Y |-> st.Y, m |-> st.m, d |-> st.d, H |-> st.H, M |-> st.M]
    ELSE NoDate

strptime(s) == DateOf(s, MatchFormat(s))

\* dt - timedelta(minutes=10); ok = FALSE is the OverflowError of a result
\* before year 1.
MinusTenMinutes(dt) ==
    IF dt.M >= 10 THEN [dt EXCEPT !.M = dt.M - 10]
    ELSE IF dt.H >= 1 THEN [dt EXCEPT !.H = dt.H - 1, !.M = dt.M + 50]
    ELSE IF dt.d >= 2 THEN [dt EXCEPT !.d = dt.d - 1, !.H = 23, !.M = dt.M + 50]
    ELSE IF dt.m >= 2
         THEN [dt EXCEPT !.m = dt.m - 1, !.d = DaysInMonth(dt.Y, dt.m - 1),
                         !.H = 23, !.M = dt.M + 50]
    ELSE IF dt.Y >= 2
         THEN [dt EXCEPT !.Y = dt.Y - 1, !.m = 12, !.d = 31,
                         !.H = 23, !.M = dt.M + 50]
    ELSE NoDate

\* "%Y" of strftime: the C library's year, which glibc does not zero-fill
\* below 1000; pads tells which the platform does.
YearText(y, pads) == IF pads THEN Pad4(y) ELSE Decimal(y)

\* dt.strftime("%Y%m%d%H%M%S"); strptime leaves the seconds at 0.
strftime_packed(dt, pads) ==
    YearText(dt.Y, pads) \o Pad2(dt.m) \o Pad2(dt.d)
        \o Pad2(dt.H) \o Pad2(dt.M) \o Pad2(0)

\* dt.strftime("%d/%m/%Y %H:%M")
strftime_display(dt, pads) ==
    Pad2(dt.d) \o <<"/">> \o Pad2(dt.m) \o <<"/">> \o YearText(dt.Y, pads)
        \o <<" ">> \o Pad2(dt.H) \o <<":">> \o Pad2(dt.M)


(***************************************************************************)
(* Block Cipher Sealer.  AES itself is kept symbolic: the encryption of a  *)
(* 16-byte block b under key k is the value [aes |-> k, block |-> b], so   *)
(* that ECB encrypts block by block and equal blocks give equal output.    *)
(* base64.b64encode(x) is the symbolic value [b64 |-> x].                  *)
(***************************************************************************)
KeyLimit == 32
\* The key sizes algorithms.AES takes for ECB that a slice of 32 bytes can have.
AesKeyLengths == {16, 24, 32}

Min(a, b) == IF a <= b THEN a ELSE b

\* The key without the slice.
derive_key_Untruncated(secret) == EncodeUtf8(secret)

\* AES_KEY.encode('utf-8')[:32]
derive_key(secret) ==
    LET raw == EncodeUtf8(secret) IN SubSeq(raw, 1, Min(KeyLimit, Len(raw)))

\* encryptor.update(padded) + encryptor.finalize() in ECB mode.
ecb_encrypt(key, padded) ==
    [i \in 1..(Len(padded) \div BlockSize) |->
        [aes |-> key,
         block |-> SubSeq(padded, (BlockSize * (i - 1)) + 1, BlockSize * i)]]

b64encode(x) == [b64 |-> x]

\* ok = FALSE is the ValueError algorithms.AES raises for a key of another size.
encrypt_aes_ecb(plaintext, secret) ==
    LET key == derive_key(secret)
    IN  IF Len(key) \notin AesKeyLengths
        THEN [ok |-> FALSE, out |-> b64encode(<<>>)]
        ELSE [ok |-> TRUE,
              out |-> b64encode(ecb_encrypt(key, pkcs7_pad(EncodeAscii(plaintext))))]

(***************************************************************************)
(* QR rendering is symbolic: the PNG of a string is [png |-> string].      *)
(* qr.make(fit=True) grows the symbol to the data, so it does not fail.    *)
(***************************************************************************)
Marker == <<"S", "K", "0", "1">>
NoToken == [marker |-> <<>>, b64 |-> b64encode(<<>>)]
NoPng == [png |-> NoToken]
generate_qr_png(data) == [png |-> data]

(***************************************************************************)
(* Module state.  The names bound at module level are those of lines 1-41; *)
(* smtplib is not among them.                                              *)
(***************************************************************************)
ModuleGlobals ==
    {"os", "json", "base64", "logging", "datetime", "timedelta",
     "MIMEMultipart", "MIMEText", "MIMEImage", "Cipher", "algorithms", "modes",
     "padding", "default_backend", "qrcode", "BytesIO",
     "GMAIL_USER", "GMAIL_APP_PASSWORD", "AES_KEY", "SMTP_CONNECTION", "logger",
     "load_template", "HTML_TEMPLATE"}

FROM_KEY == "phive_display_time_from"
TO_KEY == "phive_display_time_to"
DefaultTime ==
    <<"0", "1", "/", "0", "1", "/", "2", "0", "2", "5", " ", "0", "0", ":", "0", "0">>

VARIABLES
    AES_KEY,          \* os.environ["AES_KEY"], a sequence of code points
    pads_year,        \* whether the platform's strftime zero-fills %Y
    SMTP_CONNECTION,  \* "None", "connected" (not logged in) or "logged_in"
    pc,               \* "idle", "invoked", "returned"
    event,            \* the event of the running invocation
    frame,            \* the handler's locals when it returned
    response,         \* what the handler returned
    outbox,           \* messages the SMTP server accepted, in order
    invocations,      \* invocations started in this process
    fn, arg, result   \* a pure function under check, its input and output

vars == <<AES_KEY, pads_year, SMTP_CONNECTION, pc, event, frame, response,
          outbox, invocations, fn, arg, result>>

(***************************************************************************)
(* The handler's locals.  stage is the last step that completed, error the *)
(* exception that ended the try block ("none" when there was none).        *)
(***************************************************************************)
NoHtml == [entry_time |-> <<>>, start_time |-> None, end_time |-> None]
NoResponse == [statusCode |-> 0, body |-> ""]
EmptyFrame ==
    [stage |-> "start", error |-> "none", early |-> FALSE,
     scan_start |-> None, scan_end |-> None,
     start_raw |-> None, end_raw |-> None,
     dt_start |-> NoDate, dt_end |-> NoDate,
     entry_time |-> <<>>, start_dt |-> <<>>, end_dt |-> <<>>,
     qr_data |-> <<>>, final_qr_string |-> NoToken, qr_png |-> NoPng,
     customer_email |-> None, html_body |-> NoHtml,
     net |-> "unused", sent |-> <<>>]

Raise(f, exc) == [f EXCEPT !.error = exc]
\* Whether the try block is still running after the steps so far.
Running(f) == f.error = "none" /\ ~f.early

\* Lines 128-131: body decoding and json.loads.
parse_body(f, ev) ==
    IF ~Running(f) THEN f
    ELSE IF ev.isBase64Encoded /\ ev.body.form # "base64"
    THEN Raise(f, "binascii.Error")
    ELSE IF ~ev.isBase64Encoded /\ ev.body.form # "json"
    THEN Raise(f, "JSONDecodeError")
    ELSE [f EXCEPT !.stage = "parsed"]

\* Lines 134-140: the scan of the line items, with its break.
RECURSIVE ScanItems(_, _, _)
ScanItems(items, start_raw, end_raw) ==
    IF items = <<>> THEN [start |-> start_raw, end |-> end_raw]
    ELSE LET meta == Head(items).meta_data
             s == Or(extract_meta_value(meta, FROM_KEY), start_raw)
             e == Or(extract_meta_value(meta, TO_KEY), end_raw)
         IN  IF Truthy(s) /\ Truthy(e) THEN [start |-> s, end |-> e]
             ELSE ScanItems(Tail(items), s, e)

\* The default applied only when both sides are missing.
default_window_BothMissing(w) ==
    IF ~Truthy(w.start) /\ ~Truthy(w.end)
    THEN [start |-> Str(DefaultTime), end |-> Str(DefaultTime)]
    ELSE w

\* Lines 142-143.
default_window(w) ==
    IF ~Truthy(w.start) \/ ~Truthy(w.end)
    THEN [start |-> Str(DefaultTime), end |-> Str(DefaultTime)]
    ELSE w

\* Lines 134-143.
extract_times(f, payload) ==
    IF ~Running(f) THEN f
    ELSE IF payload.t # "dict" THEN Raise(f, "AttributeError")
    ELSE LET scan == ScanItems(payload.line_items, None, None)
             w == default_window(scan)
         IN  [f EXCEPT !.stage = "extracted",
                       !.scan_start = scan.start, !.scan_end = scan.end,
                       !.start_raw = w.start, !.end_raw = w.end]

\* Lines 148-151, once both timestamps are parsed.
pack_times(f, dt_start, dt_end, entry, pads) ==
    IF ~entry.ok THEN Raise(f, "OverflowError")
    ELSE [f EXCEPT !.stage = "encoded",
                   !.dt_start = dt_start, !.dt_end = dt_end,
                   !.entry_time = strftime_display(entry, pads),
                   !.start_dt = strftime_packed(dt_start, pads),
                   !.end_dt = strftime_packed(dt_end, pads)]

\* Line 147 and on, once the start is parsed.
parse_end(f, dt_start, pads) ==
    IF ~dt_start.ok THEN Raise(f, "ValueError")
    ELSE IF f.end_raw.t # "str"
    THEN Raise([f EXCEPT !.dt_start = dt_start], "AttributeError")
    ELSE IF ~strptime(strip(f.end_raw.v)).ok
    THEN Raise([f EXCEPT !.dt_start = dt_start], "ValueError")
    ELSE pack_times(f, dt_start, strptime(strip(f.end_raw.v)),
                    MinusTenMinutes(dt_start), pads)

\* Lines 146-151.
encode_times(f, pads) ==
    IF ~Running(f) THEN f
    ELSE IF f.start_raw.t # "str" THEN Raise(f, "AttributeError")
    ELSE parse_end(f, strptime(strip(f.start_raw.v)), pads)

\* Line 154: f"[,,{start_dt},{end_dt},,,,,]"
token_plaintext(start_dt, end_dt) ==
    <<"[", ",", ",">> \o start_dt \o <<",">> \o end_dt
        \o <<",", ",", ",", ",", ",", "]">>

\* Lines 154-156.
seal_and_render(f, secret) ==
    LET qr_data == token_plaintext(f.start_dt, f.end_dt)
        enc == encrypt_aes_ecb(qr_data, secret)
        final_qr_string == [marker |-> Marker, b64 |-> enc.out]
    IN  IF ~Running(f) THEN f
        ELSE IF ~enc.ok THEN Raise([f EXCEPT !.qr_data = qr_data], "ValueError")
        ELSE [f EXCEPT !.stage = "qr",
                       !.qr_data = qr_data,
                       !.final_qr_string = final_qr_string,
                       !.qr_png = generate_qr_png(final_qr_string)]

\* Lines 159-163.  A payload without "billing" gives {}, a billing without
\* "email".
customer(f, payload) ==
    IF ~Running(f) THEN f
    ELSE IF payload.billing.t = "none" THEN Raise(f, "AttributeError")
    ELSE LET customer_email == payload.billing.email
         IN  IF ~Truthy(customer_email)
             THEN [f EXCEPT !.customer_email = customer_email, !.early = TRUE]
             ELSE [f EXCEPT !.stage = "customer",
                            !.customer_email = customer_email]

\* Lines 166-186: the template filled with the display strings.  template.html
\* is read at start-up (lines 37-41); tpl is what str.format makes of its
\* text: "ok", or "KeyError" for a replacement field the call does not name.
render_html(f, tpl) ==
    IF ~Running(f) THEN f
    ELSE IF tpl # "ok" THEN Raise(f, tpl)
    ELSE
    [f EXCEPT !.stage = "html",
              !.html_body = [entry_time |-> f.entry_time,
                             start_time |-> f.start_raw,
                             end_time |-> f.end_raw]]

\* Lines 94-99.  Gives the connection to use and the value the global is
\* left with; exc # "none" is the exception raised on the way.  net is what the network does in
\* this invocation: "ok", "connect_fails", "login_fails" or "send_fails".
get_smtp_connection(conn, net) ==
    IF conn # "None" THEN [exc |-> "none", conn |-> conn]
    ELSE IF "smtplib" \notin ModuleGlobals
    THEN [exc |-> "NameError", conn |-> conn]
    ELSE IF net = "connect_fails"
    THEN [exc |-> "OSError", conn |-> conn]
    ELSE IF net = "login_fails"
    THEN [exc |-> "SMTPAuthenticationError", conn |-> "connected"]
    ELSE [exc |-> "none", conn |-> "logged_in"]

\* server.send_message(msg) on the connection get_smtp_connection gave.
send_message(f, msg, got, net) ==
    IF got.exc # "none" THEN [frame |-> Raise(f, got.exc), conn |-> got.conn]
    ELSE IF got.conn # "logged_in" \/ net = "send_fails"
    THEN [frame |-> Raise(f, "SMTPException"), conn |-> got.conn]
    ELSE [frame |-> [f EXCEPT !.stage = "sent", !.sent = <<msg>>],
          conn |-> got.conn]

\* Lines 104-118.  Gives the frame and the value of SMTP_CONNECTION after.
\* The frame's net is what the network did, when the server was contacted.
send_email(f, conn, net) ==
    IF ~Running(f) THEN [frame |-> f, conn |-> conn]
    ELSE send_message(
           IF conn # "None" \/ "smtplib" \in ModuleGlobals
           THEN [f EXCEPT !.net = net] ELSE f,
           [To |-> f.customer_email, html |-> f.html_body,
            qr_image |-> f.qr_png, cid |-> "<qr_code.png>"],
           get_smtp_connection(conn, net),
           net)

\* An except clause that reports the failure.
except_response_500 == [statusCode |-> 500, body |-> "Error"]

\* Lines 193-195.
except_response == [statusCode |-> 200, body |-> "OK"]

\* The value lambda_handler returns for the frame it ended with.
handler_response(f) ==
    IF f.error # "none" THEN except_response
    ELSE IF f.early THEN [statusCode |-> 400, body |-> "No email"]
    ELSE [statusCode |-> 200, body |-> "OK"]

\* Lines 126-163: the try block up to the customer's email.
before_render(ev, secret, pads) ==
    customer(
      seal_and_render(
        encode_times(
          extract_times(parse_body(EmptyFrame, ev), ev.body.payload),
          pads),
        secret),
      ev.body.payload)

(***************************************************************************)
(* Inputs.                                                                 *)
(***************************************************************************)
TA == <<"1", "5", "/", "0", "6", "/", "2", "0", "2", "5", " ", "1", "4", ":", "3", "0">>
TB == <<"1", "5", "/", "0", "6", "/", "2", "0", "2", "5", " ", "1", "6", ":", "0", "0">>
\* Blanks around, no zero fill, several blanks inside; ten minutes earlier
\* is in the year before.
TC == <<" ", "1", "/", "1", "/", "2", "0", "2", "5", " ", " ", "0", ":", "0", "5", " ">>
\* Not in the format.
TBad == <<"2", "0", "2", "5", "-", "0", "6", "-", "1", "5", " ", "1", "4", ":", "3", "0">>
\* A year below 1000.
TOld == <<"1", "5", "/", "0", "6", "/", "0", "0", "9", "9", " ", "1", "4", ":", "3", "0">>

Email1 == Str(<<"a", "@", "b">>)

MetaLists ==
    { <<Meta("other", Str(TA))>>,
      <<Meta(FROM_KEY, Str(TA))>>,
      <<Meta(TO_KEY, List(<<Str(TB)>>))>>,
      <<Meta(FROM_KEY, List(<<Str(TC)>>)), Meta(TO_KEY, Str(TB))>>,
      <<Meta(FROM_KEY, Str(TBad)), MetaNoValue(TO_KEY)>>,
      <<Meta(TO_KEY, Str(TBad))>>,
      <<Meta(FROM_KEY, Str(TOld)), Meta(TO_KEY, Str(TB))>> }

LineItems == {[meta_data |-> m] : m \in MetaLists}
ItemLists == UNION {[1..n -> LineItems] : n \in 0..MaxItems}

Billing(email) == [t |-> "dict", email |-> email]
Billings ==
    { Billing(Email1),            \* an address
      Billing(Str(<<>>)),         \* "email": ""
      Billing(None),              \* no "email" member, or no "billing"
      [t |-> "none", email |-> None] }    \* "billing": null

Payloads ==
    {[t |-> "dict", line_items |-> items, billing |-> b] :
        items \in ItemLists, b \in Billings}

SamplePayload ==
    [t |-> "dict",
     line_items |-> <<[meta_data |->
                        <<Meta(FROM_KEY, Str(TA)), Meta(TO_KEY, Str(TB))>>]>>,
     billing |-> Billing(Email1)]

Request(b64, form, payload) ==
    [isBase64Encoded |-> b64, body |-> [form |-> form, payload |-> payload]]

\* form is what the body text is: "json" (a JSON document), "base64" (the
\* base64 of one) or "text" (neither).
Events ==
    {Request(FALSE, "json", p) : p \in Payloads}
      \cup { Request(TRUE, "base64", SamplePayload),
             Request(TRUE, "json", SamplePayload),
             Request(FALSE, "base64", SamplePayload),
             Request(FALSE, "text", SamplePayload),
             Request(FALSE, "json",
                     [t |-> "list", line_items |-> <<>>, billing |-> Billing(None)]) }

NoEvent == Request(FALSE, "text", SamplePayload)

\* Secrets of "k" (one byte each) and of U+00E9 (two bytes each).
Secrets ==
    {Rep(n, 107) : n \in {15, 16, 33}} \cup {Rep(n, 233) : n \in {12, 15}}

NetOutcomes == {"ok", "connect_fails", "login_fails", "send_fails"}
TemplateOutcomes == {"ok", "KeyError"}

(***************************************************************************)
(* The process: the runtime invokes the handler with one event at a time.  *)
(***************************************************************************)
Init ==
    /\ AES_KEY \in Secrets
    /\ pads_year \in BOOLEAN
    /\ SMTP_CONNECTION = "None"
    /\ pc = "idle"
    /\ event = NoEvent
    /\ frame = EmptyFrame
    /\ response = NoResponse
    /\ outbox = <<>>
    /\ invocations = 0
    /\ fn = "none" /\ arg = <<>> /\ result = <<>>

\* The runtime calls lambda_handler(event, context).
Invoke(ev) ==
    /\ pc = "idle"
    /\ invocations < MaxInvocations
    /\ pc' = "invoked"
    /\ event' = ev
    /\ invocations' = invocations + 1
    /\ UNCHANGED <<AES_KEY, pads_year, SMTP_CONNECTION, frame, response, outbox,
                   fn, arg, result>>

\* Lines 123-195: one run of the handler, from entry to its return.
lambda_handler ==
    /\ pc = "invoked"
    /\ LET f == before_render(event, AES_KEY, pads_year)
       IN  \E net \in NetOutcomes, tpl \in TemplateOutcomes :
             LET r == send_email(render_html(f, tpl), SMTP_CONNECTION, net)
             IN  /\ frame' = r.frame
                 /\ SMTP_CONNECTION' = r.conn
                 /\ outbox' = outbox \o r.frame.sent
                 /\ response' = handler_response(r.frame)
    /\ pc' = "returned"
    /\ UNCHANGED <<AES_KEY, pads_year, event, invocations, fn, arg, result>>

\* The runtime takes the response; the invocation's locals are gone, the
\* module globals stay.
Return ==
    /\ pc = "returned"
    /\ pc' = "idle"
    /\ event' = NoEvent
    /\ frame' = EmptyFrame
    /\ response' = NoResponse
    /\ UNCHANGED <<AES_KEY, pads_year, SMTP_CONNECTION, outbox, invocations,
                   fn, arg, result>>

Next ==
    \/ \E ev \in Events : Invoke(ev)
    \/ lambda_handler
    \/ Return

Spec == Init /\ [][Next]_vars

(***************************************************************************)
(* extract_meta_value and pkcs7_pad on their own: Init draws the input,    *)
(* the action applies the function.                                        *)
(***************************************************************************)
Idle(f, a) ==
    /\ AES_KEY = <<>>
    /\ pads_year = TRUE
    /\ SMTP_CONNECTION = "None"
    /\ pc = "idle"
    /\ event = NoEvent
    /\ frame = EmptyFrame
    /\ response = NoResponse
    /\ outbox = <<>>
    /\ invocations = 0
    /\ fn = f
    /\ arg = a

Returns(value) ==
    /\ pc = "idle"
    /\ pc' = "returned"
    /\ result' = value
    /\ UNCHANGED <<AES_KEY, pads_year, SMTP_CONNECTION, event, frame, response,
                   outbox, invocations, fn, arg>>

ExtractValues ==
    {Str(TA), Str(<<>>), None, List(<<>>), List(<<Str(TB), Str(TA)>>), Num(7)}
ExtractEntries ==
    {Meta(k, val) : k \in {FROM_KEY, TO_KEY}, val \in ExtractValues}
      \cup {MetaNoValue(k) : k \in {FROM_KEY, TO_KEY}}
ExtractInputs == UNION {[1..n -> ExtractEntries] : n \in 0..MaxMeta}

InitExtract ==
    /\ \E md \in ExtractInputs, k \in {FROM_KEY, TO_KEY} :
          Idle("extract_meta_value", [meta_data |-> md, key |-> k])
    /\ result = None

CallExtract == Returns(extract_meta_value(arg.meta_data, arg.key))

SpecExtract == InitExtract /\ [][CallExtract]_vars

PadInputs ==
    {[i \in 1..n |-> ((i * step) + base) % 256] :
        n \in 0..MaxPadLen, step \in {0, 37}, base \in {0, 16, 255}}

InitPad ==
    /\ \E data \in PadInputs : Idle("pkcs7_pad", data)
    /\ result = <<>>

CallPad == Returns(pkcs7_pad(arg))

SpecPad == InitPad /\ [][CallPad]_vars

(***************************************************************************)
(* Properties.                                                             *)
(***************************************************************************)
OK200 == [statusCode |-> 200, body |-> "OK"]
NoEmail400 == [statusCode |-> 400, body |-> "No email"]
Returned == pc = "returned"
\* The scan of the line items ran.
ScanDone == frame.stage \notin {"start", "parsed"}
\* Both timestamps parsed and were packed.
Packed == frame.start_dt # <<>>
\* The sealer was called.
SealCalled == frame.qr_data # <<>>
\* send_email was called.
SendCalled == frame.stage \in {"html", "sent"}
NetworkFailed == frame.net \in {"connect_fails", "login_fails", "send_fails"}
Items == event.body.payload.line_items
BillingEmail == event.body.payload.billing.email
First32(bytes) == [i \in 1..Min(32, Len(bytes)) |-> bytes[i]]
KeyUsable == Len(First32(EncodeUtf8(AES_KEY))) \in {16, 24, 32}
\* YYYYMMDDHHMM00, fourteen digits.
Packed14(dt) ==
    Pad4(dt.Y) \o Pad2(dt.m) \o Pad2(dt.d) \o Pad2(dt.H) \o Pad2(dt.M)
        \o <<"0", "0">>
EpochPacked ==
    <<"1", "9", "7", "0", "0", "1", "0", "1", "0", "0", "0", "0", "0", "0">>
Parses(x) == x.t = "str" /\ strptime(strip(x.v)).ok

\* C1: an order-created invocation with a non-empty billing email, start and
\* end metadata that parse and a usable key dispatches exactly one email, to
\* the billing email and carrying the QR image of the sealed token, and
\* returns 200.
C1_OneEmailDispatched ==
    (/\ Returned
     /\ Packed
     /\ Truthy(frame.scan_start) /\ Truthy(frame.scan_end)
     /\ KeyUsable
     /\ Truthy(BillingEmail)
     /\ SendCalled
     /\ ~NetworkFailed)
    => /\ response = OK200
       /\ Len(frame.sent) = 1
       /\ frame.sent[1].To = BillingEmail
       /\ frame.sent[1].qr_image = generate_qr_png(frame.final_qr_string)
       /\ outbox # <<>>

\* The value a key ends with if the first non-absent result wins: that of
\* the first line item whose metadata gives one, None when no item does.
FirstFound(items, key) ==
    LET idx == {i \in 1..Len(items) :
                  Truthy(extract_meta_value(items[i].meta_data, key))}
    IN  IF idx = {} THEN None
        ELSE extract_meta_value(
               items[CHOOSE i \in idx : \A j \in idx : i <= j].meta_data, key)

\* C2: after the scan of the line items, each key holds the first non-absent
\* value for that key across the items; a later item's value for a key
\* already found does not replace it.
C2_FirstValueWins ==
    (Returned /\ ScanDone)
    => /\ frame.scan_start = FirstFound(Items, FROM_KEY)
       /\ frame.scan_end = FirstFound(Items, TO_KEY)

\* The values the items' metadata give for a key.
Extracted(key) ==
    {extract_meta_value(Items[i].meta_data, key) : i \in 1..Len(Items)}
HasKey(key) ==
    \E i \in 1..Len(Items) :
       \E j \in 1..Len(Items[i].meta_data) : Items[i].meta_data[j].key = key

\* C3: after extraction the booking window is either two values extracted
\* from the metadata or the sentinel "01/01/2025 00:00" on both sides, never
\* one extracted value with a sentinel or absent one; with no matching key on
\* any line item it is the sentinel on both sides.
C3_WindowWholeOrDefault ==
    (Returned /\ ScanDone)
    => /\ \/ /\ frame.start_raw = Str(DefaultTime)
             /\ frame.end_raw = Str(DefaultTime)
          \/ /\ Truthy(frame.start_raw) /\ frame.start_raw \in Extracted(FROM_KEY)
             /\ Truthy(frame.end_raw) /\ frame.end_raw \in Extracted(TO_KEY)
       /\ (~HasKey(FROM_KEY) /\ ~HasKey(TO_KEY))
            => (frame.start_raw = Str(DefaultTime) /\ frame.end_raw = Str(DefaultTime))

\* C3's case: one side was extracted, the other was not, and both sides got
\* the sentinel.
C3_Witness ==
    /\ Returned /\ ScanDone
    /\ Truthy(frame.scan_start) /\ ~Truthy(frame.scan_end)
    /\ frame.start_raw = Str(DefaultTime) /\ frame.end_raw = Str(DefaultTime)

\* C4: a start or end timestamp that does not parse is replaced by the packed
\* sentinel 19700101000000 for that field only, the other field keeps its own
\* packed value, and the invocation goes on to seal and render the token.
C4_ParseFailureSubstituted ==
    (/\ Returned /\ ScanDone
     /\ frame.start_raw.t = "str" /\ frame.end_raw.t = "str"
     /\ ~Parses(frame.start_raw) \/ ~Parses(frame.end_raw)
     /\ KeyUsable)
    => /\ frame.error # "ValueError"
       /\ frame.start_dt = IF Parses(frame.start_raw)
                           THEN Packed14(strptime(strip(frame.start_raw.v)))
                           ELSE EpochPacked
       /\ frame.end_dt = IF Parses(frame.end_raw)
                         THEN Packed14(strptime(strip(frame.end_raw.v)))
                         ELSE EpochPacked
       /\ frame.qr_png # NoPng

\* The entries of meta_data with the key, by position.
Matching == {i \in 1..Len(arg.meta_data) : arg.meta_data[i].key = arg.key}
FirstMatching == arg.meta_data[CHOOSE i \in Matching : \A j \in Matching : i <= j]
ExtractReturned == Returned /\ fn = "extract_meta_value"
EmptyOrMissing(e) == ~e.has \/ (e.value.t = "list" /\ e.value.v = <<>>)

C6_PlaintextFormat ==
    (Returned /\ SealCalled)
    => /\ frame.qr_data =
            <<"[", ",", ",">> \o Packed14(strptime(strip(frame.start_raw.v)))
               \o <<",">> \o Packed14(strptime(strip(frame.end_raw.v)))
               \o <<",", ",", ",", ",", ",", "]">>
       /\ frame.qr_png # NoPng
            => /\ frame.final_qr_string.marker = <<"S", "K", "0", "1">>
               /\ frame.final_qr_string.b64 =
                    encrypt_aes_ecb(frame.qr_data, AES_KEY).out
               /\ frame.qr_png = generate_qr_png(frame.final_qr_string)

PadReturned == Returned /\ fn = "pkcs7_pad"

\* C7: pkcs7_pad of n bytes is the input followed by p bytes of value p,
\* p = 16 - (n mod 16), so 1 <= p <= 16; the length of the result is a multiple
\* of 16 above n, and an input of a multiple of 16 bytes gets 16 bytes of 16.
C7_PadShape ==
    PadReturned
    => LET n == Len(arg)
           p == Len(result) - n
       IN  /\ p = 16 - (n % 16)
           /\ p >= 1 /\ p <= 16
           /\ SubSeq(result, 1, n) = arg
           /\ \A i \in (n + 1)..Len(result) : result[i] = p
           /\ Len(result) % 16 = 0
           /\ Len(result) > n
           /\ (n % 16 = 0) => (p = 16 /\ result[Len(result)] = 16)

\* C7's case: a non-empty input of a whole number of blocks was padded.
C7_Witness ==
    /\ PadReturned
    /\ Len(arg) = 16
    /\ Len(result) = 32

\* C8: the cipher key is the first 32 bytes of the UTF-8 encoding of AES_KEY;
\* sealing succeeds exactly when that key has 16, 24 or 32 bytes, so a secret
\* of 32 bytes or more always works; when it fails the invocation ends with
\* no token, no QR image and no email.
C8_KeyRule ==
    (Returned /\ SealCalled)
    => /\ KeyUsable <=> frame.final_qr_string # NoToken
       /\ Len(EncodeUtf8(AES_KEY)) >= 32 => frame.final_qr_string # NoToken
       /\ \A i \in 1..Len(frame.final_qr_string.b64.b64) :
             frame.final_qr_string.b64.b64[i].aes = First32(EncodeUtf8(AES_KEY))
       /\ ~KeyUsable
            => /\ frame.error = "ValueError"
               /\ frame.final_qr_string = NoToken
               /\ frame.qr_png = NoPng
               /\ frame.sent = <<>>
               /\ outbox = <<>>

\* C8's case: a secret that is too short reached the sealer.
C8_Witness ==
    /\ Returned /\ SealCalled
    /\ Len(EncodeUtf8(AES_KEY)) = 15
    /\ frame.error = "ValueError"

\* C9: every invocation returns 200 OK or 400 "No email"; any exception gives
\* 200 OK; 400 is returned only when the billing email is missing after the
\* token and the QR image were built, so a payload with no billing email and
\* an unparseable timestamp gets 200.
C9_AlwaysAnswers ==
    Returned
    => /\ response \in {OK200, NoEmail400}
       /\ frame.error # "none" => response = OK200
       /\ response = NoEmail400
            => /\ ~Truthy(BillingEmail)
               /\ frame.qr_png # NoPng
               /\ frame.error = "none"
       /\ (/\ ScanDone
           /\ ~Truthy(BillingEmail)
           /\ ~Parses(frame.start_raw) \/ ~Parses(frame.end_raw))
            => response = OK200

\* C9's case: no billing email and a timestamp that does not parse.
C9_Witness ==
    /\ Returned /\ ScanDone
    /\ ~Truthy(BillingEmail)
    /\ event.body.payload.billing.t = "dict"
    /\ frame.start_raw = Str(TBad)
    /\ frame.error = "ValueError"
    /\ response = OK200

\* C10: the shared SMTP connection is acquired on the first send, reused by
\* later sends and re-established after a failure: an invocation that calls
\* send_email while the network works leaves a logged-in connection and has
\* its message accepted, whatever happened to the invocations before it.
C10_ConnectionAcquired ==
    (Returned /\ SendCalled /\ ~NetworkFailed)
    => /\ SMTP_CONNECTION = "logged_in"
       /\ frame.sent # <<>>

=============================================================================
